---- MODULE Spec2Model ----
(***************************************************************************)
(* Model of the teaching snippets of esilv-mlops-crashcourse-24:           *)
(*   - lessons/02-model-deployment/web_service/lib/preprocessing.py        *)
(*   - lessons/02-model-deployment/web_service/lib/models.py               *)
(*   - lessons/02-model-deployment/web_service/app_config.py               *)
(*   - lessons/02-model-deployment/fast_api_tutorial/main.py               *)
(*   - lessons/03-pipeline-and-orchestration/lib/config.py                 *)
(*   - lessons/00-intro/best-practices/lib/hello_world.py                  *)
(* The snippets are independent; each has its own specification            *)
(* (SpecEnc, SpecHttp, SpecInput, SpecSum, SpecCsv) over the shared        *)
(* variables, the variables of the other snippets staying idle.            *)
(*                                                                         *)
(* Text is a sequence of one-character strings, so that formatting and     *)
(* parsing are computed and not assumed.  A dynamically typed value is a   *)
(* record tagged by t: Null (None / NaN), IntV(i), StrV(s).                *)
(***************************************************************************)
EXTENDS Integers, Sequences, FiniteSets, TLC

VARIABLES
    heap,            \* object id -> DataFrame (column name -> sequence of cells)
    orig,            \* the caller's DataFrame as it was before the last encoder call
    called,          \* TRUE once encode_categorical_cols has been called
    last_cols,       \* the column names the last encoder call resolved
    last_default,    \* TRUE when the last call used categorical_cols=None
    ret,             \* object id returned by the last encoder call, 0 when it raised
    exc,             \* exception raised by the last encoder call, "none" otherwise
    pre_CATEGORICAL_COLS,   \* web_service/lib/preprocessing.py CATEGORICAL_COLS
    app_CATEGORICAL_VARS,   \* web_service/app_config.py CATEGORICAL_VARS
    pipe_CATEGORICAL_COLS,  \* 03-pipeline-and-orchestration/lib/config.py CATEGORICAL_COLS
    log,             \* the requests served by the FastAPI app, with their responses
    payload,         \* keyword arguments / JSON body handed to InputData
    built,           \* result of constructing InputData from payload
    num1, num2,      \* arguments of sum_two_numbers
    sum_result,      \* its result
    csv_file,        \* the data rows of the CSV file at DATA_PATH
    phone_number,    \* the DataFrame read by call_people
    row_i,           \* number of rows call_people has iterated over
    stdout,          \* the lines printed by call_people
    pc               \* control position of call_people

encVars   == <<heap, orig, called, last_cols, last_default, ret, exc,
               pre_CATEGORICAL_COLS, app_CATEGORICAL_VARS, pipe_CATEGORICAL_COLS>>
httpVars  == <<log>>
inputVars == <<payload, built>>
sumVars   == <<num1, num2, sum_result>>
csvVars   == <<csv_file, phone_number, row_i, stdout, pc>>
vars      == <<encVars, httpVars, inputVars, sumVars, csvVars>>

----------------------------------------------------------------------------
(* Bounds *)
MaxRows     == 2     \* rows of a DataFrame handed to the encoder
MaxStrLen   == 2     \* length of a string value in an InputData payload
MaxNameLen  == 2     \* length of the name of a /greet request
MaxRequests == 3     \* requests served by the app
MaxNum      == 7     \* |argument| of sum_two_numbers
MaxTelLen   == 2     \* length of a digit-only telephone field
MaxCsvRows  == 2     \* data rows of the CSV file

----------------------------------------------------------------------------
(* Dynamically typed values *)
Null   == [t |-> "null"]
IntV(i) == [t |-> "int", i |-> i]
StrV(s) == [t |-> "str", s |-> s]

Range(f) == {f[x] : x \in DOMAIN f}

Strings(alphabet, n) == UNION {[1..k -> alphabet] : k \in 0..n}

----------------------------------------------------------------------------
(* str(int) and int(str), as Python computes them *)
DigitChar == <<"0", "1", "2", "3", "4", "5", "6", "7", "8", "9">>

IsDigit(c) == c \in Range(DigitChar)

DigitVal(c) == CHOOSE d \in 0..9 : DigitChar[d + 1] = c

RECURSIVE NatToStr(_)
NatToStr(n) ==
    IF n < 10 THEN <<DigitChar[n + 1]>>
    ELSE NatToStr(n \div 10) \o <<DigitChar[(n % 10) + 1]>>

\* str(n) for an integer n: a minus sign for negatives, no leading zeros.
IntToStr(n) == IF n < 0 THEN <<"-">> \o NatToStr(-n) ELSE NatToStr(n)

\* int(s) accepts an optional sign followed by at least one digit.
\* (Surrounding white space and "_" separators are not in any alphabet used.)
StrBody(s) == IF Len(s) > 0 /\ s[1] \in {"-", "+"} THEN Tail(s) ELSE s

IsIntString(s) ==
    /\ Len(StrBody(s)) >= 1
    /\ \A k \in 1..Len(StrBody(s)) : IsDigit(StrBody(s)[k])

RECURSIVE DigitsToNat(_)
DigitsToNat(s) ==
    IF Len(s) = 0 THEN 0
    ELSE DigitsToNat(SubSeq(s, 1, Len(s) - 1)) * 10 + DigitVal(s[Len(s)])

StrToInt(s) ==
    IF Len(s) > 0 /\ s[1] = "-" THEN 0 - DigitsToNat(StrBody(s))
    ELSE DigitsToNat(StrBody(s))

----------------------------------------------------------------------------
(* web_service/lib/preprocessing.py *)

CategoricalColsLiteral == <<"PULocationID", "DOLocationID", "passenger_count">>
CategoricalVarsLiteral == <<"PULocationID", "DOLocationID", "passenger_count">>
PipelineCategoricalColsLiteral == <<"PULocationID", "DOLocationID", "passenger_count">>

FILL_VALUE == -1

\* Series.fillna(value): a missing cell takes the value, the others stay.
fillna_zero(col, value) ==
    [k \in DOMAIN col |-> IF col[k] = Null THEN IntV(0) ELSE col[k]]

fillna(col, value) ==
    [k \in DOMAIN col |-> IF col[k] = Null THEN IntV(value) ELSE col[k]]

\* Series.astype("int") raises on a missing cell and on a string int() rejects.
CanAstypeInt(col) ==
    \A k \in DOMAIN col :
        \/ col[k].t = "int"
        \/ col[k].t = "str" /\ IsIntString(col[k].s)

astype_int(col) ==
    [k \in DOMAIN col |->
        IF col[k].t = "str" THEN IntV(StrToInt(col[k].s)) ELSE col[k]]

\* Series.astype("str"): str() of every cell.
astype_str(col) ==
    [k \in DOMAIN col |->
        IF col[k].t = "int" THEN StrV(IntToStr(col[k].i))
        ELSE IF col[k].t = "null" THEN StrV(<<"n", "a", "n">>)
        ELSE col[k]]

\* The argument categorical_cols: None (the default) or a list of names.
DefaultArg    == [given |-> FALSE]
ListArg(cols) == [given |-> TRUE, cols |-> cols]

\* Result of a call: the heap after it, the returned reference (0 when the
\* call raised), the exception, and the module-level list CATEGORICAL_COLS,
\* which the default argument aliases.
Raised(h, G, e) == [heap |-> h, ret |-> 0, exc |-> e, G |-> G]

ResolveCols(categorical_cols, G) ==
    IF categorical_cols.given THEN categorical_cols.cols ELSE G

\* Variants of the function with a plausible slip, used to test the properties.
encode_on_copy(h, df, categorical_cols, G) ==
    LET names == Range(ResolveCols(categorical_cols, G))
        new   == Len(h) + 1
    IN  IF ~(names \subseteq DOMAIN h[df]) THEN Raised(h, G, "KeyError")
        ELSE IF \E c \in names : ~CanAstypeInt(fillna(h[df][c], FILL_VALUE))
        THEN Raised(h, G, "ValueError")
        ELSE [heap |-> Append(h, [c \in DOMAIN h[df] |->
                           IF c \in names
                           THEN astype_str(astype_int(fillna(h[df][c], FILL_VALUE)))
                           ELSE h[df][c]]),
              ret |-> new, exc |-> "none", G |-> G]

encode_consuming_default(h, df, categorical_cols, G) ==
    LET names == Range(ResolveCols(categorical_cols, G))
    IN  IF ~(names \subseteq DOMAIN h[df]) THEN Raised(h, G, "KeyError")
        ELSE IF \E c \in names : ~CanAstypeInt(fillna(h[df][c], FILL_VALUE))
        THEN Raised(h, G, "ValueError")
        ELSE [heap |-> [h EXCEPT ![df] = [c \in DOMAIN h[df] |->
                           IF c \in names
                           THEN astype_str(astype_int(fillna(h[df][c], FILL_VALUE)))
                           ELSE h[df][c]]],
              ret |-> df, exc |-> "none",
              G |-> IF categorical_cols.given THEN G ELSE Tail(G)]

\* encode_categorical_cols(df, categorical_cols=None).
\*   line 10-11: None resolves to the module-level list;
\*   line 12   : df[cols] raises KeyError on a name that is no column; the
\*               right-hand side is evaluated (and may raise) before the
\*               assignment, so a raising call leaves df as it was;
\*   line 13   : the columns are overwritten with their str() form;
\*   line 14   : the same object is returned.
encode_categorical_cols(h, df, categorical_cols, G) ==
    LET names == Range(ResolveCols(categorical_cols, G))
    IN  IF ~(names \subseteq DOMAIN h[df]) THEN Raised(h, G, "KeyError")
        ELSE IF \E c \in names : ~CanAstypeInt(fillna(h[df][c], FILL_VALUE))
        THEN Raised(h, G, "ValueError")
        ELSE LET step12 == [c \in DOMAIN h[df] |->
                               IF c \in names
                               THEN astype_int(fillna(h[df][c], FILL_VALUE))
                               ELSE h[df][c]]
                 step13 == [c \in DOMAIN step12 |->
                               IF c \in names
                               THEN astype_str(step12[c])
                               ELSE step12[c]]
             IN  [heap |-> [h EXCEPT ![df] = step13],
                  ret |-> df, exc |-> "none", G |-> G]

\* The caller's DataFrame is object 1.
CallerDf == 1

\* Input tables: the three categorical columns hold integers or missing
\* values; store_and_fwd_flag is a column of flags, which int() rejects.
OtherCol == "store_and_fwd_flag"

ColValues(c) ==
    CASE c = "PULocationID"    -> {Null, IntV(-12), IntV(0), IntV(7)}
      [] c = "DOLocationID"    -> {Null, IntV(264)}
      [] c = "passenger_count" -> {Null, IntV(1)}
      [] OTHER                 -> {StrV(<<"N">>)}

TableCols == Range(CategoricalColsLiteral) \cup {OtherCol}

Tables(n) ==
    [ PULocationID       : [1..n -> ColValues("PULocationID")],
      DOLocationID       : [1..n -> ColValues("DOLocationID")],
      passenger_count    : [1..n -> ColValues("passenger_count")],
      store_and_fwd_flag : [1..n -> ColValues(OtherCol)] ]

ArgChoices ==
    { DefaultArg,
      ListArg(<<"passenger_count", "PULocationID">>),
      ListArg(<<OtherCol>>),
      ListArg(<<"DOLocationID", "tip_amount">>) }

EncIdle ==
    /\ heap = <<>>
    /\ orig = <<>>
    /\ called = FALSE
    /\ last_cols = {}
    /\ last_default = FALSE
    /\ ret = 0
    /\ exc = "none"
    /\ pre_CATEGORICAL_COLS = CategoricalColsLiteral
    /\ app_CATEGORICAL_VARS = CategoricalVarsLiteral
    /\ pipe_CATEGORICAL_COLS = PipelineCategoricalColsLiteral

HttpIdle  == log = <<>>

InputIdle == payload = <<>> /\ built = [done |-> FALSE]

SumIdle   == num1 = 0 /\ num2 = 0 /\ sum_result = [done |-> FALSE]

CsvIdle ==
    /\ csv_file = <<>>
    /\ phone_number = <<>>
    /\ row_i = 0
    /\ stdout = <<>>
    /\ pc = "idle"

\* A caller builds a DataFrame of up to MaxRows rows; the module constants
\* hold their literals.
InitEnc ==
    /\ \E n \in 0..MaxRows : \E tb \in Tables(n) :
           /\ heap = <<tb>>
           /\ orig = tb
    /\ called = FALSE
    /\ last_cols = {}
    /\ last_default = FALSE
    /\ ret = 0
    /\ exc = "none"
    /\ pre_CATEGORICAL_COLS = CategoricalColsLiteral
    /\ app_CATEGORICAL_VARS = CategoricalVarsLiteral
    /\ pipe_CATEGORICAL_COLS = PipelineCategoricalColsLiteral
    /\ HttpIdle /\ InputIdle /\ SumIdle /\ CsvIdle

\* A call encode_categorical_cols(df, categorical_cols) on the caller's frame.
EncodeCall ==
    \E arg \in ArgChoices :
        LET r == encode_categorical_cols(heap, CallerDf, arg, pre_CATEGORICAL_COLS)
        IN  /\ orig' = heap[CallerDf]
            /\ called' = TRUE
            /\ last_cols' = Range(ResolveCols(arg, pre_CATEGORICAL_COLS))
            /\ last_default' = ~arg.given
            /\ heap' = r.heap
            /\ ret' = r.ret
            /\ exc' = r.exc
            /\ pre_CATEGORICAL_COLS' = r.G
            /\ UNCHANGED <<app_CATEGORICAL_VARS, pipe_CATEGORICAL_COLS>>
            /\ UNCHANGED <<httpVars, inputVars, sumVars, csvVars>>

NextEnc == EncodeCall

SpecEnc == InitEnc /\ [][NextEnc]_vars

----------------------------------------------------------------------------
(* Properties of the categorical encoder *)

\* s is the decimal numeral of v: digits without a leading zero, preceded by
\* a minus sign exactly when v is negative.
IsDecimalOf(s, v) ==
    /\ IsIntString(s)
    /\ s[1] # "+"
    /\ (s[1] = "-") <=> (v < 0)
    /\ Len(StrBody(s)) > 1 => StrBody(s)[1] # "0"
    /\ StrToInt(s) = v

\* C1: after a call that returns, every cell of the encoded columns is a
\* string; a cell that was missing is "-1" and a cell that held the integer
\* v is the decimal string of v.
C1_EncodedCellsAreStrings ==
    (called /\ exc = "none") =>
        \A c \in last_cols : \A k \in DOMAIN orig[c] :
            /\ heap[CallerDf][c][k].t = "str"
            /\ orig[c][k] = Null => heap[CallerDf][c][k].s = <<"-", "1">>
            /\ orig[c][k].t = "int" => IsDecimalOf(heap[CallerDf][c][k].s, orig[c][k].i)

\* A default call on a column mixing a missing and a negative value.
C1_Witness ==
    /\ called /\ exc = "none" /\ last_default
    /\ Len(orig.PULocationID) = 2
    /\ orig.PULocationID = <<Null, IntV(-12)>>
    /\ orig.passenger_count = <<IntV(1), Null>>
    /\ heap[CallerDf].PULocationID = <<StrV(<<"-", "1">>), StrV(<<"-", "1", "2">>)>>
    /\ heap[CallerDf].passenger_count = <<StrV(<<"1">>), StrV(<<"-", "1">>)>>

\* C2: a call changes only the columns named in categorical_cols: the other
\* columns keep their cells, the rows keep their number and order, no new
\* table is created, and a call that returns returns the caller's table,
\* which now holds the encoded columns.
C2_OnlyNamedColumnsChange ==
    called =>
        /\ Len(heap) = 1
        /\ DOMAIN heap[CallerDf] = DOMAIN orig
        /\ \A c \in DOMAIN orig \ last_cols : heap[CallerDf][c] = orig[c]
        /\ \A c \in DOMAIN orig : Len(heap[CallerDf][c]) = Len(orig[c])
        /\ exc = "none" =>
              /\ ret = CallerDf
              /\ \A c \in last_cols : \A k \in DOMAIN orig[c] :
                    /\ heap[CallerDf][c][k].t = "str"
                    /\ orig[c][k].t = "int" =>
                          StrToInt(heap[CallerDf][c][k].s) = orig[c][k].i

\* A call naming two columns, on a two-row table with distinct rows.
C2_Witness ==
    /\ called /\ exc = "none" /\ ~last_default
    /\ last_cols = {"passenger_count", "PULocationID"}
    /\ Len(orig.PULocationID) = 2
    /\ orig.PULocationID = <<IntV(7), IntV(0)>>
    /\ orig.DOLocationID = <<Null, IntV(264)>>
    /\ heap[CallerDf].PULocationID = <<StrV(<<"7">>), StrV(<<"0">>)>>
    /\ heap[CallerDf].DOLocationID = <<Null, IntV(264)>>
    /\ ret = CallerDf

\* C10: the three definitions of the categorical-columns constant are the
\* same ordered list of three names, before and after any encoder calls.
C10_ConstantsAgree ==
    /\ pre_CATEGORICAL_COLS = <<"PULocationID", "DOLocationID", "passenger_count">>
    /\ app_CATEGORICAL_VARS = pre_CATEGORICAL_COLS
    /\ pipe_CATEGORICAL_COLS = pre_CATEGORICAL_COLS

\* A default call has run on an already encoded table (a second call).
C10_Witness ==
    /\ called /\ last_default /\ exc = "none"
    /\ Len(orig.PULocationID) = 1
    /\ orig.PULocationID[1].t = "str"
    /\ pre_CATEGORICAL_COLS = app_CATEGORICAL_VARS

----------------------------------------------------------------------------
(* fast_api_tutorial/main.py *)

\* A JSON body {"name": v}; Missing stands for a body without the key.
Missing == [t |-> "missing"]

GetRoot == [method |-> "GET", path |-> "/"]
PostGreet(v) == [method |-> "POST", path |-> "/greet", body |-> [name |-> v]]

\* "This is the homepage of the API " (with its trailing blank).
HomepageMessage ==
    <<"T", "h", "i", "s", " ", "i", "s", " ", "t", "h", "e", " ", "h", "o", "m", "e", "p", "a", "g", "e", " ", "o", "f", " ", "t", "h", "e", " ", "A", "P", "I", " ">>

HelloPrefix == <<"H", "e", "l", "l", "o", ",", " ">>

\* class Item(BaseModel): name: StrictStr.  A strict string field takes a
\* JSON string as it is and rejects every other value; a required field
\* rejects a body without it.
Item_coercing(body) ==
    IF body.name.t = "str" THEN [ok |-> TRUE, name |-> body.name.s]
    ELSE IF body.name.t = "int" THEN [ok |-> TRUE, name |-> IntToStr(body.name.i)]
    ELSE [ok |-> FALSE, loc |-> <<"body", "name">>]

Item(body) ==
    IF body.name.t = "str" THEN [ok |-> TRUE, name |-> body.name.s]
    ELSE [ok |-> FALSE, loc |-> <<"body", "name">>]

index == [message |-> HomepageMessage]

\* A variant of greet_user that strips blanks from the name.
greet_user_stripping(item) ==
    [message |-> HelloPrefix \o SelectSeq(item.name, LAMBDA ch : ch # " ")]

\* f"Hello, {item.name}"
greet_user(item) == [message |-> HelloPrefix \o item.name]

\* A variant of the app that keeps the last greeted name in a module-level
\* variable and falls back to it when the name is empty.
serve_remembering(history, request) ==
    LET greeted == {k \in DOMAIN history : history[k].resp.handler = "greet_user"}
        last    == CHOOSE k \in greeted : \A j \in greeted : j <= k
    IN  IF request.method = "GET" /\ request.path = "/"
        THEN [status |-> 200, handler |-> "index", json |-> index]
        ELSE IF Item(request.body).ok
             THEN [status |-> 200, handler |-> "greet_user",
                   json |-> IF Item(request.body).name = <<>> /\ greeted # {}
                            THEN greet_user(Item(history[last].req.body))
                            ELSE greet_user(Item(request.body))]
             ELSE [status |-> 422, handler |-> "none",
                   json |-> [detail |-> <<Item(request.body).loc>>]]

\* The app: the route table built by the decorators, and the body
\* validation FastAPI runs before it calls the endpoint function.  history
\* is what the process has served so far; no module-level variable of
\* main.py is written by a handler, so nothing of it reaches the response.
serve(history, request) ==
    IF request.method = "GET" /\ request.path = "/"
    THEN [status |-> 200, handler |-> "index", json |-> index]
    ELSE IF Item(request.body).ok
         THEN [status |-> 200, handler |-> "greet_user",
               json |-> greet_user(Item(request.body))]
         ELSE [status |-> 422, handler |-> "none",
               json |-> [detail |-> <<Item(request.body).loc>>]]

NameChars == {"A", " "}

NameStrings == Strings(NameChars, MaxNameLen) \cup {<<"A", "d", "a">>}

Requests ==
    {GetRoot} \cup {PostGreet(StrV(n)) : n \in NameStrings}
              \cup {PostGreet(IntV(5)), PostGreet(Null), PostGreet(Missing)}

InitHttp == HttpIdle /\ EncIdle /\ InputIdle /\ SumIdle /\ CsvIdle

\* GET /
GetIndex ==
    /\ Len(log) < MaxRequests
    /\ log' = Append(log, [req |-> GetRoot, resp |-> serve(log, GetRoot)])
    /\ UNCHANGED <<encVars, inputVars, sumVars, csvVars>>

\* POST /greet
PostGreetRequest ==
    /\ Len(log) < MaxRequests
    /\ \E r \in Requests \ {GetRoot} :
           log' = Append(log, [req |-> r, resp |-> serve(log, r)])
    /\ UNCHANGED <<encVars, inputVars, sumVars, csvVars>>

NextHttp == GetIndex \/ PostGreetRequest

SpecHttp == InitHttp /\ [][NextHttp]_vars

(* Properties of the HTTP demo *)

IsGreet(e) == e.req.method = "POST" /\ e.req.path = "/greet"

\* C3: a POST /greet whose name is the string s is answered with
\* {"message": "Hello, " + s}, s unchanged.
C3_GreetingEchoesName ==
    \A k \in DOMAIN log :
        (IsGreet(log[k]) /\ log[k].req.body.name.t = "str") =>
            /\ log[k].resp.status = 200
            /\ DOMAIN log[k].resp.json = {"message"}
            /\ Len(log[k].resp.json.message) = 7 + Len(log[k].req.body.name.s)
            /\ SubSeq(log[k].resp.json.message, 1, 7) = <<"H", "e", "l", "l", "o", ",", " ">>
            /\ SubSeq(log[k].resp.json.message, 8, Len(log[k].resp.json.message))
                  = log[k].req.body.name.s

\* The spec's example, and a name with a surrounding blank.
C3_Witness ==
    /\ Len(log) >= 2
    /\ log[1].req = PostGreet(StrV(<<"A", "d", "a">>))
    /\ log[1].resp.json.message = <<"H", "e", "l", "l", "o", ",", " ", "A", "d", "a">>
    /\ log[2].req = PostGreet(StrV(<<" ">>))
    /\ log[2].resp.json.message = <<"H", "e", "l", "l", "o", ",", " ", " ">>

\* C4: a POST /greet whose name is not a string is rejected with a
\* validation error: greet_user does not run and no greeting is returned.
C4_NonStringRejected ==
    \A k \in DOMAIN log :
        (IsGreet(log[k]) /\ log[k].req.body.name.t # "str") =>
            /\ log[k].resp.status = 422
            /\ log[k].resp.handler # "greet_user"
            /\ "message" \notin DOMAIN log[k].resp.json

\* {"name": 5} has been rejected.
C4_Witness ==
    /\ Len(log) >= 1
    /\ log[1].req = PostGreet(IntV(5))
    /\ log[1].resp.status = 422
    /\ log[1].resp.handler = "none"

\* C9: the response to a request depends on that request alone: it is the
\* response a process that has served nothing gives, equal requests get
\* equal responses wherever they stand in the sequence, and GET / always
\* returns the static message.
C9_NoStateAcrossRequests ==
    /\ \A k \in DOMAIN log : log[k].resp = serve(<<>>, log[k].req)
    /\ \A j, k \in DOMAIN log :
          log[j].req = log[k].req => log[j].resp = log[k].resp
    /\ \A k \in DOMAIN log :
          log[k].req = GetRoot =>
              log[k].resp = [status |-> 200, handler |-> "index",
                             json |-> [message |-> HomepageMessage]]

\* The same body first and last, with an accepted and a rejected request
\* of other kinds in between or before.
C9_Witness ==
    /\ Len(log) = 3
    /\ log[1].req = PostGreet(StrV(<<>>))
    /\ log[2].req = PostGreet(StrV(<<"A">>))
    /\ log[3].req = log[1].req
    /\ log[3].resp = log[1].resp
    /\ log[3].resp.json.message = <<"H", "e", "l", "l", "o", ",", " ">>

----------------------------------------------------------------------------
(* web_service/lib/models.py *)

Fields == {"PULocationID", "DOLocationID", "passenger_count"}

\* The defaults of the class body.
InputDataDefault(f) ==
    CASE f = "PULocationID"    -> 264
      [] f = "DOLocationID"    -> 264
      [] f = "passenger_count" -> 1

\* Validation of a field annotated int: an integer is taken as it is, a
\* string is taken when int() reads it, None is refused.
CanReadInt(v) == v.t = "int" \/ (v.t = "str" /\ IsIntString(v.s))

ReadInt(v) == IF v.t = "int" THEN v.i ELSE StrToInt(v.s)

FieldOrder == <<"PULocationID", "DOLocationID", "passenger_count">>

\* Variants of the constructor with a plausible slip.
InputData_first_error_only(data) ==
    LET bad == {f \in Fields : data[f] # Missing /\ ~CanReadInt(data[f])}
    IN  IF bad # {}
        THEN [done |-> TRUE, ok |-> FALSE,
              errors |-> {FieldOrder[CHOOSE k \in 1..3 :
                              /\ FieldOrder[k] \in bad
                              /\ \A j \in 1..(k - 1) : FieldOrder[j] \notin bad]}]
        ELSE [done |-> TRUE, ok |-> TRUE,
              obj |-> [f \in Fields |->
                          IF data[f] = Missing THEN InputDataDefault(f)
                          ELSE ReadInt(data[f])]]

InputData_positive_only(data) ==
    LET bad == {f \in Fields : data[f] # Missing /\
                   (~CanReadInt(data[f]) \/ ReadInt(data[f]) < 0)}
    IN  IF bad # {}
        THEN [done |-> TRUE, ok |-> FALSE, errors |-> bad]
        ELSE [done |-> TRUE, ok |-> TRUE,
              obj |-> [f \in Fields |->
                          IF data[f] = Missing THEN InputDataDefault(f)
                          ELSE ReadInt(data[f])]]

\* InputData(**data): every supplied field is validated, all failures are
\* collected in one ValidationError keyed by field name; an omitted field
\* takes its default.
InputData(data) ==
    LET bad == {f \in Fields : data[f] # Missing /\ ~CanReadInt(data[f])}
    IN  IF bad # {}
        THEN [done |-> TRUE, ok |-> FALSE, errors |-> bad]
        ELSE [done |-> TRUE, ok |-> TRUE,
              obj |-> [f \in Fields |->
                          IF data[f] = Missing THEN InputDataDefault(f)
                          ELSE ReadInt(data[f])]]

PayloadChars == {"1", "-", "A"}

PayloadValues ==
    {Missing, Null, IntV(-3), IntV(0), IntV(265)}
        \cup {StrV(x) : x \in Strings(PayloadChars, MaxStrLen)}

InitInput ==
    /\ payload \in [Fields -> PayloadValues]
    /\ built = [done |-> FALSE]
    /\ EncIdle /\ HttpIdle /\ SumIdle /\ CsvIdle

Construct ==
    /\ ~built.done
    /\ built' = InputData(payload)
    /\ UNCHANGED <<payload, encVars, httpVars, sumVars, csvVars>>

NextInput == Construct

SpecInput == InitInput /\ [][NextInput]_vars

(* Properties of InputData *)

\* C5: with no field supplied the record is (264, 264, 1); an omitted field
\* takes its default and a supplied integer is kept as given, whatever its
\* range, so a payload of integers is always accepted.
C5_DefaultsAndIntegersKept ==
    built.done =>
        /\ (\A f \in Fields : payload[f].t \in {"missing", "int"}) => built.ok
        /\ built.ok =>
              /\ payload.PULocationID = Missing => built.obj.PULocationID = 264
              /\ payload.DOLocationID = Missing => built.obj.DOLocationID = 264
              /\ payload.passenger_count = Missing => built.obj.passenger_count = 1
              /\ \A f \in Fields :
                    payload[f].t = "int" => built.obj[f] = payload[f].i

\* A negative pickup id alone: it is kept and the two others default.
C5_Witness ==
    /\ built.done /\ built.ok
    /\ payload = [PULocationID |-> IntV(-3), DOLocationID |-> Missing,
                  passenger_count |-> Missing]
    /\ built.obj = [PULocationID |-> -3, DOLocationID |-> 264, passenger_count |-> 1]

\* A value no integer can be read from: None, or a string that is not an
\* optionally signed run of digits.
Unreadable(v) == v = Null \/ (v.t = "str" /\ ~IsIntString(v.s))

\* C6: a payload with an unreadable field is rejected, the error names
\* exactly the unreadable fields, and no record is produced.
C6_ErrorNamesOffendingFields ==
    (built.done /\ \E f \in Fields : Unreadable(payload[f])) =>
        /\ ~built.ok
        /\ "obj" \notin DOMAIN built
        /\ built.errors = {f \in Fields : Unreadable(payload[f])}

\* Two offending fields next to a valid one.
C6_Witness ==
    /\ built.done /\ ~built.ok
    /\ payload = [PULocationID |-> StrV(<<"A">>), DOLocationID |-> IntV(0),
                  passenger_count |-> Null]
    /\ built.errors = {"PULocationID", "passenger_count"}

----------------------------------------------------------------------------
(* 00-intro/best-practices/lib/hello_world.py *)

sum_two_numbers_doubling(a, b) == a + a

sum_two_numbers(a, b) == a + b

InitSum ==
    /\ num1 \in -MaxNum..MaxNum
    /\ num2 \in -MaxNum..MaxNum
    /\ sum_result = [done |-> FALSE]
    /\ EncIdle /\ HttpIdle /\ InputIdle /\ CsvIdle

CallSum ==
    /\ ~sum_result.done
    /\ sum_result' = [done |-> TRUE, value |-> sum_two_numbers(num1, num2)]
    /\ UNCHANGED <<num1, num2, encVars, httpVars, inputVars, csvVars>>

NextSum == CallSum

SpecSum == InitSum /\ [][NextSum]_vars

\* C7: sum_two_numbers(a, b) is a + b, and the order of the arguments does
\* not matter.
C7_SumIsCommutative ==
    sum_result.done =>
        /\ sum_result.value = num1 + num2
        /\ sum_result.value = sum_two_numbers(num2, num1)

\* The call of the script's main block, sum_two_numbers(5, 7).
C7_Witness ==
    /\ sum_result.done
    /\ num1 = 5 /\ num2 = 7
    /\ sum_result.value = 12

----------------------------------------------------------------------------
(* call_people, 00-intro/best-practices/lib/hello_world.py *)

\* The file, below its header line "name,telephone": one record per row,
\* each field the text written in the file.
CsvNames == {<<"A", "d", "a">>, <<"B", "o", "b">>}

TelChars == {"0", "5"}

CsvTelephones ==
    (Strings(TelChars, MaxTelLen) \ {<<>>})
        \cup {<<"5", "5", "5", "-", "1", "2", "3", "4">>}

CsvFiles ==
    UNION {[1..n -> [name : CsvNames, telephone : CsvTelephones]] : n \in 0..MaxCsvRows}

\* pd.read_csv with its defaults infers the type of each column: a column
\* whose every field reads as an integer becomes an integer column, any other
\* column keeps its text.  (Empty fields, NA markers and decimal points are
\* in no alphabet used here.)
parse_column(col) ==
    IF Len(col) > 0 /\ \A k \in DOMAIN col : IsIntString(col[k])
    THEN [k \in DOMAIN col |-> IntV(StrToInt(col[k]))]
    ELSE [k \in DOMAIN col |-> StrV(col[k])]

read_csv(file) ==
    [name      |-> parse_column([k \in DOMAIN file |-> file[k].name]),
     telephone |-> parse_column([k \in DOMAIN file |-> file[k].telephone])]

\* {value} in an f-string: str(value).
format_value(v) == IF v.t = "int" THEN IntToStr(v.i) ELSE v.s

\* f"Calling {person['name']} at {person['telephone']}"
calling_line(person) ==
    <<"C", "a", "l", "l", "i", "n", "g", " ">> \o format_value(person.name)
        \o <<" ", "a", "t", " ">> \o format_value(person.telephone)

InitCsv ==
    /\ csv_file \in CsvFiles
    /\ phone_number = <<>>
    /\ row_i = 0
    /\ stdout = <<>>
    /\ pc = "start"
    /\ EncIdle /\ HttpIdle /\ InputIdle /\ SumIdle

\* line 26: phone_number = pd.read_csv(DATA_PATH)
ReadCsv ==
    /\ pc = "start"
    /\ phone_number' = read_csv(csv_file)
    /\ pc' = "loop"
    /\ UNCHANGED <<csv_file, row_i, stdout, encVars, httpVars, inputVars, sumVars>>

\* lines 27-28: one iteration of the loop over iterrows()
PrintRow ==
    /\ pc = "loop"
    /\ row_i < Len(phone_number.name)
    /\ stdout' = Append(stdout,
                    calling_line([name      |-> phone_number.name[row_i + 1],
                                  telephone |-> phone_number.telephone[row_i + 1]]))
    /\ row_i' = row_i + 1
    /\ UNCHANGED <<csv_file, phone_number, pc, encVars, httpVars, inputVars, sumVars>>

\* the loop is exhausted and call_people returns
Return ==
    /\ pc = "loop"
    /\ row_i = Len(phone_number.name)
    /\ pc' = "done"
    /\ UNCHANGED <<csv_file, phone_number, row_i, stdout,
                   encVars, httpVars, inputVars, sumVars>>

NextCsv == ReadCsv \/ PrintRow \/ Return

SpecCsv == InitCsv /\ [][NextCsv]_vars

(* Properties of call_people *)

Contains(line, x) ==
    \E k \in 0..(Len(line) - Len(x)) : SubSeq(line, k + 1, k + Len(x)) = x

\* C8: call_people prints one line per row of the file, in file order, and
\* the line of a row starts with "Calling " and contains the name and the
\* telephone written in that row.
C8_OneLinePerRow ==
    pc = "done" =>
        /\ Len(stdout) = Len(csv_file)
        /\ \A k \in DOMAIN csv_file :
              /\ SubSeq(stdout[k], 1, 8) = <<"C", "a", "l", "l", "i", "n", "g", " ">>
              /\ Contains(stdout[k], csv_file[k].name)
              /\ Contains(stdout[k], csv_file[k].telephone)

\* What does hold: one line per row, in order, each with the row's name.
CallPeopleLineCount ==
    pc = "done" =>
        /\ Len(stdout) = Len(csv_file)
        /\ \A k \in DOMAIN csv_file :
              SubSeq(stdout[k], 1, 8 + Len(csv_file[k].name))
                  = <<"C", "a", "l", "l", "i", "n", "g", " ">> \o csv_file[k].name

\* The spec's example file: one row ("Ada", "555-1234"), one line with both.
CallPeopleExample ==
    (pc = "done" /\ Len(csv_file) = 1
        /\ csv_file[1] = [name |-> <<"A", "d", "a">>,
                          telephone |-> <<"5", "5", "5", "-", "1", "2", "3", "4">>]) =>
        stdout = << <<"C", "a", "l", "l", "i", "n", "g", " ", "A", "d", "a", " ",
                      "a", "t", " ", "5", "5", "5", "-", "1", "2", "3", "4">> >>

====
